---- MODULE Spec2Model ----
(***************************************************************************)
(* Model of src/src/from_str.rs: parsing the text of a fixed-point number  *)
(* into the raw bits of a FixedU8 .. FixedU128 / FixedI8 .. FixedI128.     *)
(*                                                                         *)
(* A text is a sequence of bytes (ASCII codes).  A machine integer of      *)
(* NBITS bits is a natural number below 2^NBITS; the operations on it are  *)
(* those of the Rust unsigned types (wrapping shifts, checked additions).  *)
(* One call of from_str_radix is one run of the state machine: the         *)
(* tokenizer, the fraction converter, the integer converter, the assembly. *)
(***************************************************************************)
EXTENDS Integers, Sequences, FiniteSets, TLC

VARIABLES
    s,          \* the text given to the call, a sequence of bytes
    radix,      \* the base of the call: 2, 8, 10 or 16
    NBITS,      \* the width of the target type: 8, 16, 32, 64 or 128
    is_signed,  \* TRUE for FixedI*, FALSE for FixedU*
    frac_nbits, \* Self::frac_nbits() of the target type
    pc,         \* position of the call: "parse", "frac", "int", "all", "done"
    lit,        \* what parse returned (Parse { neg, int, frac } and its byte ranges)
    frac_out,   \* what $frac returned: Some(bits), None (rounds to 1.0)
    int_out,    \* what $int returned: Ok(bits) or Err(Overflow)
    result,     \* what the call returns
    fn,         \* the function a direct call of a converter applies
    args,       \* the arguments of the direct call
    ret         \* what the direct call returned

vars == <<s, radix, NBITS, is_signed, frac_nbits, pc, lit, frac_out, int_out, result,
          fn, args, ret>>

\* the variables of a direct call of a converter
direct == <<fn, args, ret>>

---------------------------------------------------------------------------
(* Bytes *)

\* b'.' , '+' , '-' , '0' , '9' , ' '
DOT == 46
PLUS == 43
MINUS == 45
B0 == 48
B9 == 57
SPACE == 32
\* 'A' 'F' 'a' 'f'
UA == 65
UF == 70
LA == 97
LF == 102

---------------------------------------------------------------------------
(* Machine integers *)

RECURSIVE BitLen(_)
\* number of significant bits of v: v < 2^n iff BitLen(v) <= n
BitLen(v) == IF v = 0 THEN 0 ELSE 1 + BitLen(v \div 2)

\* v is a value of the unsigned type of n bits (v <= MAX)
Fits(v, n) == BitLen(v) <= n

\* v as the unsigned type of n bits keeps it (wrapping arithmetic)
Trunc(v, n) == IF Fits(v, n) THEN v ELSE v % (2^n)

RECURSIVE shl(_, _, _)
\* v << k in the unsigned type of n bits, k < n
shl(v, k, n) == IF k = 0 \/ v = 0 THEN v ELSE shl(Trunc(2 * v, n), k - 1, n)

RECURSIVE shr(_, _)
\* v >> k
shr(v, k) == IF k = 0 \/ v = 0 THEN v ELSE shr(v \div 2, k - 1)

\* Option<I>
Some(v) == [tag |-> "Some", val |-> v]
None == [tag |-> "None", val |-> 0]
\* the unreachable!() arm of a match: the call panics
Unreachable == [tag |-> "Unreachable", val |-> 0]

\* a.checked_add(b) in the unsigned type of n bits
checked_add(a, b, n) == IF Fits(a + b, n) THEN Some(a + b) ELSE None

\* Result<$Bits, ParseFixedError>
Ok(v) == [tag |-> "Ok", bits |-> v, kind |-> "-"]
Err(k) == [tag |-> "Err", bits |-> 0, kind |-> k]
Panic == [tag |-> "Panic", bits |-> 0, kind |-> "unreachable"]
Pending == [tag |-> "Pending", bits |-> 0, kind |-> "-"]

---------------------------------------------------------------------------
(* The tokenizer: parse, src/src/from_str.rs 277-337 *)

\* IsDigit with the octal arm written '0'..='9'
IsDigit_OctalTakesNine(rdx, c) ==
    \/ rdx = 2 /\ c >= B0 /\ c <= B0 + 1
    \/ rdx = 8 /\ c >= B0 /\ c <= B9
    \/ rdx = 10 /\ c >= B0 /\ c <= B9
    \/ rdx = 16 /\ c >= B0 /\ c <= B9
    \/ rdx = 16 /\ c >= LA /\ c <= LF
    \/ rdx = 16 /\ c >= UA /\ c <= UF

\* the digit arms of the match on (radix, c)
IsDigit(rdx, c) ==
    \/ rdx = 2 /\ c >= B0 /\ c <= B0 + 1
    \/ rdx = 8 /\ c >= B0 /\ c <= B0 + 7
    \/ rdx = 10 /\ c >= B0 /\ c <= B9
    \/ rdx = 16 /\ c >= B0 /\ c <= B9
    \/ rdx = 16 /\ c >= LA /\ c <= LF
    \/ rdx = 16 /\ c >= UA /\ c <= UF

\* the locals of parse before the loop
ParseStart ==
    [int0 |-> 0, int1 |-> 0, frac0 |-> 0, frac1 |-> 0, has_sign |-> FALSE,
     is_negative |-> FALSE, has_digits |-> FALSE, has_point |-> FALSE, err |-> "-"]

\* one iteration of the loop over s.char_indices(): index is the byte offset of c
ParseStep(st, index, c, can_be_neg, rdx) ==
    IF c = DOT
    THEN IF st.has_point
         THEN [st EXCEPT !.err = "TooManyPoints"]
         ELSE [st EXCEPT !.has_digits = FALSE, !.has_point = TRUE, !.frac0 = index + 1]
    ELSE IF c = PLUS
    THEN IF st.has_point \/ st.has_sign \/ st.has_digits
         THEN [st EXCEPT !.err = "InvalidDigit"]
         ELSE [st EXCEPT !.has_sign = TRUE]
    ELSE IF c = MINUS
    THEN IF st.has_point \/ st.has_sign \/ st.has_digits \/ ~can_be_neg
         THEN [st EXCEPT !.err = "InvalidDigit"]
         ELSE [st EXCEPT !.has_sign = TRUE, !.is_negative = TRUE]
    ELSE IF IsDigit(rdx, c)
    THEN [st EXCEPT !.int0 = IF ~st.has_point /\ ~st.has_digits THEN index ELSE @,
                    !.has_digits = TRUE,
                    !.int1 = IF ~st.has_point THEN index + 1 ELSE @,
                    !.frac1 = IF st.has_point THEN index + 1 ELSE @]
    ELSE [st EXCEPT !.err = "InvalidDigit"]

RECURSIVE ParseLoop(_, _, _, _, _)
\* the loop from the i-th byte on (1-based), left at the first error
ParseLoop(t, i, st, can_be_neg, rdx) ==
    IF i > Len(t) \/ st.err # "-"
    THEN st
    ELSE ParseLoop(t, i + 1, ParseStep(st, i - 1, t[i], can_be_neg, rdx), can_be_neg, rdx)

\* Result<Parse, ParseFixedError>; the spans are kept with their byte ranges
ParseOk(neg, t, i0, i1, f0, f1) ==
    [tag |-> "Ok", kind |-> "-", neg |-> neg,
     int |-> SubSeq(t, i0 + 1, i1), frac |-> SubSeq(t, f0 + 1, f1),
     int0 |-> i0, int1 |-> i1, frac0 |-> f0, frac1 |-> f1]
ParseErr(k) ==
    [tag |-> "Err", kind |-> k, neg |-> FALSE, int |-> <<>>, frac |-> <<>>,
     int0 |-> 0, int1 |-> 0, frac0 |-> 0, frac1 |-> 0]
NoParse ==
    [tag |-> "Pending", kind |-> "-", neg |-> FALSE, int |-> <<>>, frac |-> <<>>,
     int0 |-> 0, int1 |-> 0, frac0 |-> 0, frac1 |-> 0]

\* parse without the check for NoDigits
parse_NoDigitsUnchecked(t, can_be_neg, rdx) ==
    LET st == ParseLoop(t, 1, ParseStart, can_be_neg, rdx)
        f1 == IF st.frac1 < st.frac0 THEN st.frac0 ELSE st.frac1
    IN  IF st.err # "-" THEN ParseErr(st.err)
        ELSE ParseOk(st.is_negative, t, st.int0, st.int1, st.frac0, f1)

\* parse without "if frac.1 < frac.0 { frac.1 = frac.0; }"
parse_FracEndUnfixed(t, can_be_neg, rdx) ==
    LET st == ParseLoop(t, 1, ParseStart, can_be_neg, rdx)
    IN  IF st.err # "-" THEN ParseErr(st.err)
        ELSE IF st.int0 = st.int1 /\ st.frac0 >= st.frac1 THEN ParseErr("NoDigits")
        ELSE ParseOk(st.is_negative, t, st.int0, st.int1, st.frac0, st.frac1)

parse(t, can_be_neg, rdx) ==
    LET st == ParseLoop(t, 1, ParseStart, can_be_neg, rdx)
        f1 == IF st.frac1 < st.frac0 THEN st.frac0 ELSE st.frac1
    IN  IF st.err # "-" THEN ParseErr(st.err)
        ELSE IF st.int0 = st.int1 /\ st.frac0 = f1 THEN ParseErr("NoDigits")
        ELSE ParseOk(st.is_negative, t, st.int0, st.int1, st.frac0, f1)

---------------------------------------------------------------------------
(* The exact fraction converters, src/src/from_str.rs 30-91.  n is I::NBITS. *)

RECURSIVE bin_loop(_, _, _, _, _)
\* the loop of bin_str_to_bin from the i-th byte of a on
bin_loop(a, i, acc, bits, n) ==
    IF i > Len(a)
    THEN Some(shl(acc, bits, n))
    ELSE LET val == a[i] - B0
         IN  IF bits < 1
             THEN checked_add(acc, val, n)
             ELSE bin_loop(a, i + 1, shl(acc, 1, n) + val, bits - 1, n)

bin_str_to_bin(a, dump_bits, n) == bin_loop(a, 1, 0, n - dump_bits, n)

RECURSIVE oct_loop(_, _, _, _, _)
oct_loop(a, i, acc, bits, n) ==
    IF i > Len(a)
    THEN Some(shl(acc, bits, n))
    ELSE LET val == a[i] - B0
         IN  IF bits < 3
             THEN checked_add(shl(acc, bits, n) + shr(val, 3 - bits),
                              shr(val, 2 - bits) % 2, n)
             ELSE oct_loop(a, i + 1, shl(acc, 3, n) + val, bits - 3, n)

oct_str_to_bin(a, dump_bits, n) == oct_loop(a, 1, 0, n - dump_bits, n)

\* let val = (byte & 0x0f) + if byte >= 0x40 { 9 } else { 0 };
hex_val(byte) == (byte % 16) + (IF byte >= 64 THEN 9 ELSE 0)

RECURSIVE hex_loop(_, _, _, _, _)
hex_loop(a, i, acc, bits, n) ==
    IF i > Len(a)
    THEN Some(shl(acc, bits, n))
    ELSE LET val == hex_val(a[i])
         IN  IF bits < 4
             THEN checked_add(shl(acc, bits, n) + shr(val, 4 - bits),
                              shr(val, 3 - bits) % 2, n)
             ELSE hex_loop(a, i + 1, shl(acc, 4, n) + val, bits - 4, n)

hex_str_to_bin(a, dump_bits, n) == hex_loop(a, 1, 0, n - dump_bits, n)

---------------------------------------------------------------------------
(* Wide unsigned integers: the values of u64, u128 and of pairs of u128 that *)
(* the decimal converters of 32, 64 and 128 bits compute on, written as the  *)
(* sequence of their bytes, least significant first, without leading zeros.  *)

RECURSIVE parse_dec(_)
\* str::parse of a text of decimal digits, into a type that holds it
parse_dec(a) ==
    IF a = <<>> THEN 0 ELSE 10 * parse_dec(SubSeq(a, 1, Len(a) - 1)) + (a[Len(a)] - B0)

RECURSIVE norm(_)
\* x without its most significant zero bytes
norm(x) == IF x # <<>> /\ x[Len(x)] = 0 THEN norm(SubSeq(x, 1, Len(x) - 1)) ELSE x

RECURSIVE wide(_)
\* the wide integer of value v
wide(v) == IF v = 0 THEN <<>> ELSE <<v % 256>> \o wide(v \div 256)

RECURSIVE narrow(_)
\* the value of a wide integer
narrow(x) == IF x = <<>> THEN 0 ELSE x[1] + 256 * narrow(Tail(x))

byte_of(x, i) == IF i <= Len(x) THEN x[i] ELSE 0

RECURSIVE add_from(_, _, _, _)
add_from(x, y, i, c) ==
    IF i > Len(x) /\ i > Len(y) THEN (IF c = 0 THEN <<>> ELSE <<c>>)
    ELSE LET t == byte_of(x, i) + byte_of(y, i) + c
         IN  <<t % 256>> \o add_from(x, y, i + 1, t \div 256)

\* x + y
wadd(x, y) == add_from(x, y, 1, 0)

RECURSIVE sub_from(_, _, _, _)
sub_from(x, y, i, b) ==
    IF i > Len(x) THEN <<>>
    ELSE LET t == byte_of(x, i) - byte_of(y, i) - b
         IN  <<(t + 256) % 256>> \o sub_from(x, y, i + 1, IF t < 0 THEN 1 ELSE 0)

\* x - y, for x >= y
wsub(x, y) == norm(sub_from(x, y, 1, 0))

RECURSIVE cmp_from(_, _, _)
cmp_from(x, y, i) ==
    IF i = 0 THEN 0
    ELSE IF x[i] # y[i] THEN (IF x[i] < y[i] THEN -1 ELSE 1)
    ELSE cmp_from(x, y, i - 1)

\* -1, 0, 1 as x < y, x = y, x > y
wcmp(x, y) ==
    IF Len(x) # Len(y) THEN (IF Len(x) < Len(y) THEN -1 ELSE 1) ELSE cmp_from(x, y, Len(x))

RECURSIVE mul_small_from(_, _, _, _)
mul_small_from(x, m, i, c) ==
    IF i > Len(x) THEN wide(c)
    ELSE LET t == x[i] * m + c
         IN  <<t % 256>> \o mul_small_from(x, m, i + 1, t \div 256)

\* x * m for m below 2^16
wmul_small(x, m) == IF m = 0 THEN <<>> ELSE mul_small_from(x, m, 1, 0)

\* x * 256^k
shift_bytes(x, k) == IF x = <<>> THEN <<>> ELSE [i \in 1..k |-> 0] \o x

RECURSIVE mul_from(_, _, _)
mul_from(x, y, i) ==
    IF i > Len(y) THEN <<>>
    ELSE wadd(shift_bytes(wmul_small(x, y[i]), i - 1), mul_from(x, y, i + 1))

\* x * y
wmul(x, y) == mul_from(x, y, 1)

\* the bytes of x in the opposite order
reversed(x) == [i \in 1..Len(x) |-> x[Len(x) + 1 - i]]

RECURSIVE div_small_from(_, _, _, _)
\* the bytes of the quotient from the i-th down, most significant first
div_small_from(x, m, i, r) ==
    IF i = 0 THEN <<>>
    ELSE LET t == r * 256 + x[i]
         IN  <<t \div m>> \o div_small_from(x, m, i - 1, t % m)

\* x / m for m below 2^16
wdiv_small(x, m) == norm(reversed(div_small_from(x, m, Len(x), 0)))

\* x << k, unbounded
wshl(x, k) == wmul_small(shift_bytes(x, k \div 8), 2^(k % 8))

\* x >> k
wshr(x, k) ==
    IF k \div 8 >= Len(x) THEN <<>>
    ELSE wdiv_small(SubSeq(x, (k \div 8) + 1, Len(x)), 2^(k % 8))

\* x as the unsigned type of n bits (wrapping), n a multiple of 8
wtrunc(x, n) == IF Len(x) <= n \div 8 THEN x ELSE norm(SubSeq(x, 1, n \div 8))

\* x is a value of the unsigned type of n bits, n a multiple of 8
wfits(x, n) == Len(x) <= n \div 8

RECURSIVE quot_byte(_, _, _, _)
\* the greatest q in lo..hi with d * q <= r
quot_byte(r, d, lo, hi) ==
    IF lo = hi THEN lo
    ELSE LET mid == (lo + hi + 1) \div 2
         IN  IF wcmp(wmul_small(d, mid), r) <= 0
             THEN quot_byte(r, d, mid, hi)
             ELSE quot_byte(r, d, lo, mid - 1)

RECURSIVE div_from(_, _, _, _)
\* the bytes of the quotient from the i-th down, most significant first
div_from(x, d, i, r) ==
    IF i = 0 THEN <<>>
    ELSE LET r1 == norm(<<x[i]>> \o r)
             q == quot_byte(r1, d, 0, 255)
         IN  <<q>> \o div_from(x, d, i - 1, wsub(r1, wmul_small(d, q)))

\* x / d, for d > 0
wdiv(x, d) == norm(reversed(div_from(x, d, Len(x), <<>>)))

RECURSIVE wpow(_, _)
\* b^e for b below 2^16
wpow(b, e) ==
    IF e = 0 THEN <<1>>
    ELSE LET h == wpow(b, e \div 2)
         IN  IF e % 2 = 0 THEN wmul(h, h) ELSE wmul_small(wmul(h, h), b)

RECURSIVE wparse_dec(_)
\* str::parse of a text of decimal digits into a wide unsigned type
wparse_dec(a) ==
    IF Len(a) <= 4 THEN wide(parse_dec(a))
    ELSE LET h == Len(a) \div 2
         IN  wadd(wmul(wparse_dec(SubSeq(a, 1, h)), wpow(10, Len(a) - h)),
                  wparse_dec(SubSeq(a, h + 1, Len(a))))

---------------------------------------------------------------------------
(* The decimal fraction converters, src/src/from_str.rs 93-148.            *)
(* a is a value of the type of 2n bits, the result one of the type of n.   *)

\* dec_to_bin with the shift done in the type of n bits, where it wraps
dec_to_bin_NarrowShift(a, dump_bits, k, n) ==
    LET divisor == (5^k) * 2
        shift == shr(shl(a, n - k + 1, n), dump_bits)
        round == Trunc(shift + (divisor \div 2), 2 * n)
    IN  IF shr(round, n - dump_bits) >= divisor
        THEN None
        ELSE Some(Trunc(round \div divisor, n))

\* the body shared by dec3_to_bin8, dec6_to_bin16, dec13_to_bin32, dec27_to_bin64
dec_to_bin(a, dump_bits, k, n) ==
    LET divisor == (5^k) * 2
        shift == shr(shl(a, n - k + 1, 2 * n), dump_bits)
        round == Trunc(shift + (divisor \div 2), 2 * n)
    IN  IF shr(round, n - dump_bits) >= divisor
        THEN None
        ELSE Some(Trunc(round \div divisor, n))

\* dec3_to_bin8 without "+ (divisor / 2)": the quotient is truncated
dec3_to_bin8_Truncating(a, dump_bits) ==
    LET divisor == (5^3) * 2
        shift == shr(shl(a, 8 - 3 + 1, 16), dump_bits)
    IN  IF shr(shift, 8 - dump_bits) >= divisor
        THEN None
        ELSE Some(Trunc(shift \div divisor, 8))

dec3_to_bin8(a, dump_bits) == dec_to_bin(a, dump_bits, 3, 8)
dec6_to_bin16(a, dump_bits) == dec_to_bin(a, dump_bits, 6, 16)

\* the same body on wide integers: a and the value returned are wide
dec_to_bin_wide(a, dump_bits, k, n) ==
    LET divisor == wmul_small(wpow(5, k), 2)
        shift == wshr(wtrunc(wshl(a, n - k + 1), 2 * n), dump_bits)
        round == wtrunc(wadd(shift, wdiv_small(divisor, 2)), 2 * n)
    IN  IF wcmp(wshr(round, n - dump_bits), divisor) >= 0
        THEN None
        ELSE Some(wtrunc(wdiv(round, divisor), n))

dec13_to_bin32(a, dump_bits) == dec_to_bin_wide(a, dump_bits, 13, 32)
dec27_to_bin64(a, dump_bits) == dec_to_bin_wide(a, dump_bits, 27, 64)

---------------------------------------------------------------------------
(* The 128-bit decimal converter, src/src/from_str.rs 149-213 *)

RECURSIVE BitOr(_, _)
\* a | b
BitOr(a, b) ==
    IF a = 0 THEN b
    ELSE IF b = 0 THEN a
    ELSE (IF a % 2 = 1 \/ b % 2 = 1 THEN 1 ELSE 0) + 2 * BitOr(a \div 2, b \div 2)

\* a | b on wide integers
wor(a, b) ==
    norm([i \in 1..(IF Len(a) > Len(b) THEN Len(a) ELSE Len(b)) |->
            BitOr(byte_of(a, i), byte_of(b, i))])

\* a.overflowing_add(b) in the unsigned type of n bits: <<sum, overflow>>
overflowing_add(a, b, n) == <<wtrunc(wadd(a, b), n), ~wfits(wadd(a, b), n)>>

\* a << k and a.wrapping_mul(b) in u128
shl128(a, k) == wtrunc(wshl(a, k), 128)
wrapping_mul128(a, b) == wtrunc(wmul(a, b), 128)

\* mul_hi_lo without carry_col3 in ans23
mul_hi_lo_CarryDropped(lhs, rhs) ==
    LET lhs_hi == wshr(lhs, 64)
        lhs_lo == wtrunc(lhs, 64)
        rhs_hi == wshr(rhs, 64)
        rhs_lo == wtrunc(rhs, 64)
        col01 == wrapping_mul128(lhs_lo, rhs_lo)
        partial_col12 == wtrunc(wadd(wrapping_mul128(lhs_hi, rhs_lo), wshr(col01, 64)), 128)
        col12 == wtrunc(wadd(partial_col12, wrapping_mul128(lhs_lo, rhs_hi)), 128)
        ans01 == wtrunc(wadd(shl128(wtrunc(col12, 64), 64), wtrunc(col01, 64)), 128)
        ans23 == wtrunc(wadd(wrapping_mul128(lhs_hi, rhs_hi), wshr(col12, 64)), 128)
    IN  <<ans23, ans01>>

\* the pair <<hi, lo>> of the product of two u128
mul_hi_lo(lhs, rhs) ==
    LET lhs_hi == wshr(lhs, 64)
        lhs_lo == wtrunc(lhs, 64)
        rhs_hi == wshr(rhs, 64)
        rhs_lo == wtrunc(rhs, 64)
        lhs_lo_rhs_lo == wrapping_mul128(lhs_lo, rhs_lo)
        lhs_hi_rhs_lo == wrapping_mul128(lhs_hi, rhs_lo)
        lhs_lo_rhs_hi == wrapping_mul128(lhs_lo, rhs_hi)
        lhs_hi_rhs_hi == wrapping_mul128(lhs_hi, rhs_hi)
        col01 == lhs_lo_rhs_lo
        col01_hi == wshr(col01, 64)
        col01_lo == wtrunc(col01, 64)
        partial_col12 == wtrunc(wadd(lhs_hi_rhs_lo, col01_hi), 128)
        col12c == overflowing_add(partial_col12, lhs_lo_rhs_hi, 128)
        col12_hi == wshr(col12c[1], 64)
        col12_lo == wtrunc(col12c[1], 64)
        ans01 == wtrunc(wadd(shl128(col12_lo, 64), col01_lo), 128)
        ans23 == wtrunc(wadd(wadd(lhs_hi_rhs_hi, col12_hi),
                             IF col12c[2] THEN shl128(<<1>>, 64) ELSE <<>>), 128)
    IN  <<ans23, ans01>>

\* divisor.lo_div_from(dividend_hi, dividend_lo): the low word of the quotient
div_wide(dividend_hi, dividend_lo, divisor) ==
    wtrunc(wdiv(wadd(wshl(dividend_hi, 128), dividend_lo), divisor), 128)

\* the end of dec27_27_to_bin128 without the addition of divisor / 2
dec27_27_round_Truncating(shift_hi, shift_lo, dump_bits) ==
    LET divisor == wmul_small(wpow(5, 54), 2)
        whole_compare == IF dump_bits = 0 THEN shift_hi
                         ELSE IF dump_bits = 128 THEN shift_lo
                         ELSE wor(wshr(shift_lo, 128 - dump_bits), shl128(shift_hi, dump_bits))
    IN  IF wcmp(whole_compare, divisor) >= 0
        THEN None
        ELSE Some(div_wide(shift_hi, shift_lo, divisor))

\* the end of dec27_27_to_bin128, lines 178-191: the addition of divisor / 2, the
\* comparison of the whole units and the division
dec27_27_round(shift_hi, shift_lo, dump_bits) ==
    LET divisor == wmul_small(wpow(5, 54), 2)
        rnd == overflowing_add(shift_lo, wdiv_small(divisor, 2), 128)
        round_lo == rnd[1]
        round_hi == IF rnd[2] THEN wtrunc(wadd(shift_hi, <<1>>), 128) ELSE shift_hi
        whole_compare == IF dump_bits = 0 THEN round_hi
                         ELSE IF dump_bits = 128 THEN round_lo
                         ELSE wor(wshr(round_lo, 128 - dump_bits), shl128(round_hi, dump_bits))
    IN  IF wcmp(whole_compare, divisor) >= 0
        THEN None
        ELSE Some(div_wide(round_hi, round_lo, divisor))

\* the middle of dec27_27_to_bin128, lines 160-177: the shift of the two words by
\* (128 - 54 + 1) - dump_bits
dec27_27_shift(comb_hi, comb_lo, dump_bits) ==
    LET less == (128 - 54 + 1) < dump_bits
        greater == (128 - 54 + 1) > dump_bits
        sr == dump_bits - (128 - 54 + 1)
        sl == (128 - 54 + 1) - dump_bits
        shift_lo == IF less THEN wor(wshr(comb_lo, sr), shl128(comb_hi, 128 - sr))
                    ELSE IF greater THEN shl128(comb_lo, sl)
                    ELSE comb_lo
        shift_hi == IF less THEN wshr(comb_hi, sr)
                    ELSE IF greater THEN wor(shl128(comb_hi, sl), wshr(comb_lo, 128 - sl))
                    ELSE comb_hi
    IN  dec27_27_round(shift_hi, shift_lo, dump_bits)

\* hi, lo and the value returned are wide integers
dec27_27_to_bin128(hi, lo, dump_bits) ==
    LET m == mul_hi_lo(hi, wpow(10, 27))
        comb == overflowing_add(m[2], lo, 128)
        comb_hi == IF comb[2] THEN wtrunc(wadd(m[1], <<1>>), 128) ELSE m[1]
    IN  dec27_27_shift(comb_hi, comb[1], dump_bits)

---------------------------------------------------------------------------
(* The fraction converters of the types: $frac of impl_from_str_unsigned_not128, *)
(* src/src/from_str.rs 481-501, and get_frac128, 574-599                         *)

Min(a, b) == IF a < b THEN a ELSE b

\* the value of an Option of a wide integer
narrowed(o) == IF o.tag = "Some" THEN Some(narrow(o.val)) ELSE o

\* $decode_frac of the type of n bits; i is a wide integer for n = 32 and n = 64
decode_frac(i, dump_bits, n) ==
    CASE n = 8 -> dec3_to_bin8(i, dump_bits)
      [] n = 16 -> dec6_to_bin16(i, dump_bits)
      [] n = 32 -> dec13_to_bin32(i, dump_bits)
      [] n = 64 -> dec27_to_bin64(i, dump_bits)

\* the body of $frac after the delegation to $frac_half, for the type of n bits
\* with $dec_frac_digits = k
frac_body(frac, rdx, nbits, n, k) ==
    IF frac = <<>> THEN Some(0)
    ELSE CASE rdx = 2 -> bin_str_to_bin(frac, nbits, n)
           [] rdx = 8 -> oct_str_to_bin(frac, nbits, n)
           [] rdx = 16 -> hex_str_to_bin(frac, nbits, n)
           [] rdx = 10 ->
                LET end == Min(Len(frac), k)
                    rem == k - end
                    i == parse_dec(SubSeq(frac, 1, end)) * (10^rem)
                    wi == wmul(wparse_dec(SubSeq(frac, 1, end)), wpow(10, rem))
                IN  IF n <= 16 THEN decode_frac(i, n - nbits, n)
                    ELSE narrowed(decode_frac(wi, n - nbits, n))
           [] OTHER -> Unreachable

get_frac8(frac, rdx, nbits) == frac_body(frac, rdx, nbits, 8, 3)

get_frac16(frac, rdx, nbits) ==
    IF nbits <= 16 \div 2 THEN get_frac8(frac, rdx, nbits) ELSE frac_body(frac, rdx, nbits, 16, 6)

get_frac32(frac, rdx, nbits) ==
    IF nbits <= 32 \div 2 THEN get_frac16(frac, rdx, nbits) ELSE frac_body(frac, rdx, nbits, 32, 13)

get_frac64(frac, rdx, nbits) ==
    IF nbits <= 64 \div 2 THEN get_frac32(frac, rdx, nbits) ELSE frac_body(frac, rdx, nbits, 64, 27)

get_frac128(frac, rdx, nbits) ==
    IF nbits <= 64 THEN get_frac64(frac, rdx, nbits)
    ELSE IF frac = <<>> THEN Some(0)
    ELSE CASE rdx = 2 -> bin_str_to_bin(frac, nbits, 128)
           [] rdx = 10 ->
                LET short == Len(frac) <= 27
                    lo_end == Min(Len(frac), 54)
                    hi == IF short THEN wmul(wparse_dec(frac), wpow(10, 27 - Len(frac)))
                          ELSE wparse_dec(SubSeq(frac, 1, 27))
                    lo == IF short THEN <<>>
                          ELSE wmul(wparse_dec(SubSeq(frac, 28, lo_end)), wpow(10, 54 - lo_end))
                IN  narrowed(dec27_27_to_bin128(hi, lo, 128 - nbits))
           [] OTHER -> Unreachable

\* $frac of the type of n bits
get_frac(frac, rdx, nbits, n) ==
    CASE n = 8 -> get_frac8(frac, rdx, nbits)
      [] n = 16 -> get_frac16(frac, rdx, nbits)
      [] n = 32 -> get_frac32(frac, rdx, nbits)
      [] n = 64 -> get_frac64(frac, rdx, nbits)
      [] n = 128 -> get_frac128(frac, rdx, nbits)

---------------------------------------------------------------------------
(* The integer converters: $int of impl_from_str_unsigned, src/src/from_str.rs 431-462 *)

\* char::to_digit of a digit of the radix
digit_val(c) ==
    IF c >= LA THEN c - LA + 10 ELSE IF c >= UA THEN c - UA + 10 ELSE c - B0

RECURSIVE from_str_radix_loop(_, _, _, _, _)
\* the digits of src from the i-th on: checked_mul by the radix, checked_add of the digit
from_str_radix_loop(src, i, acc, rdx, n) ==
    IF i > Len(src) THEN Ok(acc)
    ELSE IF ~Fits(acc * rdx, n) THEN Err("PosOverflow")
    ELSE IF ~Fits(acc * rdx + digit_val(src[i]), n) THEN Err("PosOverflow")
    ELSE from_str_radix_loop(src, i + 1, acc * rdx + digit_val(src[i]), rdx, n)

\* <$Bits>::from_str_radix(src, radix) of the unsigned type of n bits, src holding digits only
from_str_radix(src, rdx, n) ==
    IF src = <<>> THEN Err("Empty") ELSE from_str_radix_loop(src, 1, 0, rdx, n)

RECURSIVE strip_zeros(_)
\* while int.starts_with('0') { int = &int[1..]; }
strip_zeros(int) ==
    IF int # <<>> /\ int[1] = B0 THEN strip_zeros(SubSeq(int, 2, Len(int))) ELSE int

\* int_body that does not add the carry of the fraction
int_body_CarryDropped(int0, rdx, nbits, whole_frac, n) ==
    LET int == strip_zeros(int0)
        parsed == from_str_radix(int, rdx, n)
        remove_bits == n - nbits
    IN  IF nbits = 0
        THEN IF whole_frac \/ int # <<>> THEN Err("Overflow") ELSE Ok(0)
        ELSE IF parsed.tag = "Err" THEN Err("Overflow")
        ELSE IF remove_bits > 0 /\ shr(parsed.bits, nbits) # 0 THEN Err("Overflow")
        ELSE Ok(shl(parsed.bits, remove_bits, n))

\* int_body that ignores the carry when there are no integer bits
int_body_CarryIgnoredAtZero(int0, rdx, nbits, whole_frac, n) ==
    LET int == strip_zeros(int0)
        parsed == from_str_radix(int, rdx, n)
        acc == IF whole_frac THEN parsed.bits + 1 ELSE parsed.bits
        remove_bits == n - nbits
    IN  IF nbits = 0
        THEN IF int # <<>> THEN Err("Overflow") ELSE Ok(0)
        ELSE IF parsed.tag = "Err" THEN Err("Overflow")
        ELSE IF whole_frac /\ ~Fits(parsed.bits + 1, n) THEN Err("Overflow")
        ELSE IF remove_bits > 0 /\ shr(acc, nbits) # 0 THEN Err("Overflow")
        ELSE Ok(shl(acc, remove_bits, n))

\* the body of $int after the delegation to $int_half, for the type of n bits
int_body(int0, rdx, nbits, whole_frac, n) ==
    LET int == strip_zeros(int0)
        parsed == from_str_radix(int, rdx, n)
        acc == IF whole_frac THEN parsed.bits + 1 ELSE parsed.bits
        remove_bits == n - nbits
    IN  IF nbits = 0
        THEN IF whole_frac \/ int # <<>> THEN Err("Overflow") ELSE Ok(0)
        ELSE IF parsed.tag = "Err" THEN Err("Overflow")
        ELSE IF whole_frac /\ ~Fits(parsed.bits + 1, n) THEN Err("Overflow")
        ELSE IF remove_bits > 0 /\ shr(acc, nbits) # 0 THEN Err("Overflow")
        ELSE Ok(shl(acc, remove_bits, n))

\* .map(|x| $Bits::from(x) << HALF) on the result of $int_half, into the type of n bits
\* map_shl_half without the shift into the upper half
map_shl_half_Unshifted(r, n) == r

map_shl_half(r, n) == IF r.tag = "Ok" THEN Ok(shl(r.bits, n \div 2, n)) ELSE r

get_int8(int, rdx, nbits, whole_frac) == int_body(int, rdx, nbits, whole_frac, 8)

get_int16(int, rdx, nbits, whole_frac) ==
    IF nbits <= 16 \div 2 THEN map_shl_half(get_int8(int, rdx, nbits, whole_frac), 16)
    ELSE int_body(int, rdx, nbits, whole_frac, 16)

get_int32(int, rdx, nbits, whole_frac) ==
    IF nbits <= 32 \div 2 THEN map_shl_half(get_int16(int, rdx, nbits, whole_frac), 32)
    ELSE int_body(int, rdx, nbits, whole_frac, 32)

get_int64(int, rdx, nbits, whole_frac) ==
    IF nbits <= 64 \div 2 THEN map_shl_half(get_int32(int, rdx, nbits, whole_frac), 64)
    ELSE int_body(int, rdx, nbits, whole_frac, 64)

get_int128(int, rdx, nbits, whole_frac) ==
    IF nbits <= 128 \div 2 THEN map_shl_half(get_int64(int, rdx, nbits, whole_frac), 128)
    ELSE int_body(int, rdx, nbits, whole_frac, 128)

\* $int of the type of n bits
get_int(int, rdx, nbits, whole_frac, n) ==
    CASE n = 8 -> get_int8(int, rdx, nbits, whole_frac)
      [] n = 16 -> get_int16(int, rdx, nbits, whole_frac)
      [] n = 32 -> get_int32(int, rdx, nbits, whole_frac)
      [] n = 64 -> get_int64(int, rdx, nbits, whole_frac)
      [] n = 128 -> get_int128(int, rdx, nbits, whole_frac)

---------------------------------------------------------------------------
(* The assembly: $all of impl_from_str_unsigned (416-429) and of            *)
(* impl_from_str_signed (378-403)                                          *)

\* SealedFixed::int_bits: Self::Bits::nbits() - Self::frac_bits()
int_bits(n, f) == n - f

\* let (frac, whole_frac) = match $frac(..) { Some(frac) => (frac, false), None => (0, true) }
frac_of(fo) == IF fo.tag = "Some" THEN fo.val ELSE 0
whole_frac_of(fo) == fo.tag = "None"

\* <$Bits as SealedInt>::Unsigned::MSB
MSB(n) == 2^(n - 1)

\* max_abs without the extra magnitude of the negative side
max_abs_Symmetric(neg, n) == MSB(n) - 1

\* let max_abs = if neg { MSB } else { MSB - 1 }
max_abs(neg, n) == IF neg THEN MSB(n) ELSE MSB(n) - 1

\* abs.wrapping_neg(): !abs + 1, wrapping
wrapping_neg(abs, n) == Trunc(((2^n) - 1 - abs) + 1, n)

\* Ok(int | frac)
all_unsigned(int, frac) == Ok(BitOr(int, frac))

\* from "let abs = abs_int | abs_frac" to Ok(f)
all_signed(neg, abs_int, abs_frac, n) ==
    LET abs == BitOr(abs_int, abs_frac)
    IN  IF abs > max_abs(neg, n) THEN Err("Overflow")
        ELSE IF neg THEN Ok(wrapping_neg(abs, n))
        ELSE Ok(abs)

\* the whole call, as one function of its arguments
from_str(t, rdx, n, f, signed) ==
    LET p == parse(t, signed, rdx)
        fo == get_frac(p.frac, rdx, f, n)
        io == get_int(p.int, rdx, int_bits(n, f), whole_frac_of(fo), n)
    IN  IF p.tag = "Err" THEN Err(p.kind)
        ELSE IF fo.tag = "Unreachable" THEN Panic
        ELSE IF io.tag = "Err" THEN io
        ELSE IF signed THEN all_signed(p.neg, io.bits, frac_of(fo), n)
        ELSE all_unsigned(io.bits, frac_of(fo))

---------------------------------------------------------------------------
(* One call of from_str_radix as a state machine *)

\* let Parse { neg, int, frac } = parse(s, can_be_neg, radix)?;
\* can_be_neg is false in impl_from_str_unsigned and true in impl_from_str_signed
Tokenize ==
    /\ pc = "parse"
    /\ lit' = parse(s, is_signed, radix)
    /\ pc' = IF lit'.tag = "Err" THEN "done" ELSE "frac"
    /\ result' = IF lit'.tag = "Err" THEN Err(lit'.kind) ELSE result
    /\ UNCHANGED <<s, radix, NBITS, is_signed, frac_nbits, frac_out, int_out>>
    /\ UNCHANGED direct

\* match $frac(frac, radix, frac_nbits)
ConvertFrac ==
    /\ pc = "frac"
    /\ frac_out' = get_frac(lit.frac, radix, frac_nbits, NBITS)
    /\ pc' = IF frac_out'.tag = "Unreachable" THEN "done" ELSE "int"
    /\ result' = IF frac_out'.tag = "Unreachable" THEN Panic ELSE result
    /\ UNCHANGED <<s, radix, NBITS, is_signed, frac_nbits, lit, int_out>>
    /\ UNCHANGED direct

\* $int(int, radix, int_nbits, whole_frac)?
ConvertInt ==
    /\ pc = "int"
    /\ int_out' = get_int(lit.int, radix, int_bits(NBITS, frac_nbits),
                          whole_frac_of(frac_out), NBITS)
    /\ pc' = IF int_out'.tag = "Err" THEN "done" ELSE "all"
    /\ result' = IF int_out'.tag = "Err" THEN int_out' ELSE result
    /\ UNCHANGED <<s, radix, NBITS, is_signed, frac_nbits, lit, frac_out>>
    /\ UNCHANGED direct

AssembleUnsigned ==
    /\ pc = "all"
    /\ ~is_signed
    /\ result' = all_unsigned(int_out.bits, frac_of(frac_out))
    /\ pc' = "done"
    /\ UNCHANGED <<s, radix, NBITS, is_signed, frac_nbits, lit, frac_out, int_out>>
    /\ UNCHANGED direct

AssembleSigned ==
    /\ pc = "all"
    /\ is_signed
    /\ result' = all_signed(lit.neg, int_out.bits, frac_of(frac_out), NBITS)
    /\ pc' = "done"
    /\ UNCHANGED <<s, radix, NBITS, is_signed, frac_nbits, lit, frac_out, int_out>>
    /\ UNCHANGED direct

Next == Tokenize \/ ConvertFrac \/ ConvertInt \/ AssembleUnsigned \/ AssembleSigned

NextUnsigned == Tokenize \/ ConvertFrac \/ ConvertInt \/ AssembleUnsigned

---------------------------------------------------------------------------
(* The calls that are enumerated *)

\* longest run of bytes of a text of SpecTok
MaxTokLen == 4
\* most digits (integer and fraction digits together) of a text of Spec
MaxDigits == 3
\* most '0' digits appended to a fraction (C9)
MaxZeros == 2
\* most integer digits and most fraction digits of a text of SpecDec8
MaxIntLen == 1
MaxFracLen == 4

\* the texts over the bytes A of at most k bytes
Seqs(A, k) == UNION {[1..m -> A] : m \in 0..k}

\* [sign] int and [sign] int '.' frac
Texts(signs, ints, fracs) ==
    {sg \o i : sg \in signs, i \in ints}
        \cup {sg \o i \o <<DOT>> \o f : sg \in signs, i \in ints, f \in fracs}

\* [sign] int ['.' frac] with at most m digits
TextsOfDigits(signs, D, m) ==
    {sg \o i : sg \in signs, i \in Seqs(D, m)}
        \cup {sg \o p[1] \o <<DOT>> \o p[2] : sg \in signs,
              p \in {q \in Seqs(D, m) \X Seqs(D, m) : Len(q[1]) + Len(q[2]) <= m}}

Signs == {<<>>, <<PLUS>>, <<MINUS>>}

Radixes == {2, 8, 10, 16}

\* some digits of each radix
SomeDigits(rdx) ==
    CASE rdx = 2 -> {B0, B0 + 1}
      [] rdx = 8 -> {B0, B0 + 3, B0 + 7}
      [] rdx = 10 -> {B0, B0 + 5, B9}
      [] rdx = 16 -> {B0, B0 + 8, UF}

\* no direct call of a converter has returned
NotCalled == [tag |-> "NotCalled", val |-> 0]

\* the variables of a call that has not started
Start ==
    /\ pc = "parse"
    /\ lit = NoParse
    /\ frac_out = None
    /\ int_out = Pending
    /\ result = Pending
    /\ fn = "from_str_radix"
    /\ args = <<>>
    /\ ret = NotCalled

\* FixedU8, FixedI8, FixedU16, FixedI16 with some fraction-bit counts; FixedU128
\* with 0 and with 128 fraction bits (the decimal converter of the latter works
\* on 54-digit numbers and is left out of the enumeration)
Types(rdx) ==
    ({<<8, 0>>, <<8, 3>>, <<8, 8>>, <<16, 0>>, <<16, 8>>, <<16, 11>>, <<16, 16>>} \X BOOLEAN)
        \cup ((IF rdx = 10 THEN {<<128, 0>>} ELSE {<<128, 0>>, <<128, 128>>}) \X {FALSE})

Init ==
    /\ radix \in Radixes
    /\ \E ty \in Types(radix) :
        /\ NBITS = ty[1][1]
        /\ frac_nbits = ty[1][2]
        /\ is_signed = ty[2]
    /\ s \in TextsOfDigits(Signs, SomeDigits(radix), MaxDigits)
    /\ Start

Spec == Init /\ [][Next]_vars

\* the tokenizer on every text of at most MaxTokLen of these bytes, for FixedU8 and
\* FixedI8 with 4 fraction bits
TokBytes == {PLUS, MINUS, DOT, SPACE, B0 + 1, B9, LA, UF}

InitTok ==
    /\ radix \in Radixes
    /\ NBITS = 8
    /\ frac_nbits = 4
    /\ is_signed \in BOOLEAN
    /\ s \in Seqs(TokBytes, MaxTokLen)
    /\ Start

SpecTok == InitTok /\ [][Next]_vars

\* decimal texts for FixedU8 with every fraction-bit count: every fraction of at
\* most 3 digits, and the fractions of at most MaxFracLen of the digits 0, 5, 9
DecFracs == Seqs(B0..B9, 3) \cup Seqs({B0, B0 + 5, B9}, MaxFracLen)

InitDec8 ==
    /\ radix = 10
    /\ NBITS = 8
    /\ frac_nbits \in 0..8
    /\ is_signed = FALSE
    /\ s \in Texts(Signs, Seqs({B0, B0 + 1, B9}, MaxIntLen), DecFracs)
    /\ Start

SpecDec8 == InitDec8 /\ [][NextUnsigned]_vars

---------------------------------------------------------------------------
(* The grammar of a literal, stated on the text alone *)

\* the digits of a base
DigitsOf(rdx) ==
    CASE rdx = 2 -> 48..49
      [] rdx = 8 -> 48..55
      [] rdx = 10 -> 48..57
      [] rdx = 16 -> (48..57) \cup (65..70) \cup (97..102)

AllDigits(t, rdx) == \A i \in 1..Len(t) : t[i] \in DigitsOf(rdx)

\* the sign characters a call accepts
SignsOf(can_be_neg) == IF can_be_neg THEN {PLUS, MINUS} ELSE {PLUS}

\* <<k, a>>: t is a sign of k bytes, the integer digits up to byte a, and then
\* nothing, or a point and the fraction digits; with at least one digit
Shapes(t, can_be_neg, rdx) ==
    {d \in (0..1) \X (0..Len(t)) :
        /\ d[1] <= d[2]
        /\ d[1] = 1 => t[1] \in SignsOf(can_be_neg)
        /\ AllDigits(SubSeq(t, d[1] + 1, d[2]), rdx)
        /\ \/ d[2] = Len(t) /\ d[2] > d[1]
           \/ /\ d[2] < Len(t)
              /\ t[d[2] + 1] = DOT
              /\ AllDigits(SubSeq(t, d[2] + 2, Len(t)), rdx)
              /\ (d[2] - d[1]) + (Len(t) - d[2] - 1) >= 1}

ShapeNeg(t, d) == d[1] = 1 /\ t[1] = MINUS
ShapeInt(t, d) == SubSeq(t, d[1] + 1, d[2])
ShapeFrac(t, d) == IF d[2] = Len(t) THEN <<>> ELSE SubSeq(t, d[2] + 2, Len(t))

Tokenized == pc # "parse"

\* C6: parse accepts exactly the texts [sign] I ['.' Fr] with '+' always allowed,
\* '-' allowed only when can_be_neg, I and Fr runs of digits of the radix holding
\* at least one digit together; and then neg is TRUE iff the sign is '-', int is I
\* and frac is Fr.
C6_ParseAcceptsGrammar ==
    Tokenized =>
        /\ (lit.tag = "Ok") <=> (Shapes(s, is_signed, radix) # {})
        /\ lit.tag = "Ok" =>
            \A d \in Shapes(s, is_signed, radix) :
                /\ lit.neg = ShapeNeg(s, d)
                /\ lit.int = ShapeInt(s, d)
                /\ lit.frac = ShapeFrac(s, d)

\* a text "+I.Fr" accepted by a call that takes no '-'
C6_Witness ==
    /\ Tokenized /\ lit.tag = "Ok" /\ ~is_signed
    /\ s[1] = PLUS /\ lit.int # <<>> /\ lit.frac # <<>> /\ radix = 16

\* byte i of t offends: a second point, a sign after a digit, sign or point, a '-'
\* where none is allowed, or a byte that is no sign, point or digit of the base
Offends(t, i, can_be_neg, rdx) ==
    \/ t[i] = DOT /\ \E j \in 1..(i - 1) : t[j] = DOT
    \/ /\ t[i] \in {PLUS, MINUS}
       /\ \E j \in 1..(i - 1) : t[j] \in DigitsOf(rdx) \cup {PLUS, MINUS, DOT}
    \/ t[i] = MINUS /\ ~can_be_neg
    \/ t[i] \notin DigitsOf(rdx) \cup {PLUS, MINUS, DOT}

Offenders(t, can_be_neg, rdx) == {i \in 1..Len(t) : Offends(t, i, can_be_neg, rdx)}

Leftmost(S) == CHOOSE i \in S : \A j \in S : i <= j

\* the error kind the leftmost offending byte decides, "-" for an accepted text
KindOf(t, can_be_neg, rdx) ==
    LET off == Offenders(t, can_be_neg, rdx)
    IN  IF off # {}
        THEN IF t[Leftmost(off)] = DOT THEN "TooManyPoints" ELSE "InvalidDigit"
        ELSE IF \A i \in 1..Len(t) : t[i] \notin DigitsOf(rdx) THEN "NoDigits"
        ELSE "-"

\* C7: the error kind of parse is decided by the leftmost offending byte:
\* TooManyPoints for a second point, InvalidDigit for a misplaced sign, a '-' that
\* is not allowed or a byte that is no digit of the base; NoDigits only for a text
\* with no offending byte and no digit.
C7_LeftmostOffender == Tokenized => lit.kind = KindOf(s, is_signed, radix)

\* "1.2.x": a second point left of a byte that is no digit
C7_Witness ==
    /\ Tokenized /\ lit.kind = "TooManyPoints"
    /\ \E i \in 1..Len(s) : s[i] = SPACE

\* the bytes of both ranges are digits, and the text is the sign, the integer
\* span, the point if there is one, and the fraction span
SpansRebuild ==
    /\ AllDigits(lit.int, radix) /\ AllDigits(lit.frac, radix)
    /\ lit.int = SubSeq(s, lit.int0 + 1, lit.int1)
    /\ lit.frac = SubSeq(s, lit.frac0 + 1, lit.frac1)
    /\ \E sg \in {<<>>, <<PLUS>>, <<MINUS>>}, pt \in {<<>>, <<DOT>>} :
            s = sg \o lit.int \o pt \o lit.frac

SpansDisjoint ==
    \A i \in 0..Len(s) : ~(lit.int0 <= i /\ i < lit.int1 /\ lit.frac0 <= i /\ i < lit.frac1)

HasPoint(t) == \E i \in 1..Len(t) : t[i] = DOT

\* C10 as stated: for every accepted text the ranges are disjoint and ordered,
\* int_start <= int_end <= frac_start <= frac_end <= len(text), their bytes are
\* digits and the text is rebuilt from them.
C10_Original ==
    (Tokenized /\ lit.tag = "Ok") =>
        /\ SpansDisjoint
        /\ lit.int0 <= lit.int1 /\ lit.int1 <= lit.frac0
        /\ lit.frac0 <= lit.frac1 /\ lit.frac1 <= Len(s)
        /\ SpansRebuild

\* C10 amended: the ranges are disjoint, each lies in the text, they are ordered
\* when the text has a point, and without a point the fraction range is [0, 0);
\* their bytes are digits and the text is rebuilt from them.
C10_SpansOrderedWithPoint ==
    (Tokenized /\ lit.tag = "Ok") =>
        /\ SpansDisjoint
        /\ lit.int0 <= lit.int1 /\ lit.int1 <= Len(s)
        /\ lit.frac0 <= lit.frac1 /\ lit.frac1 <= Len(s)
        /\ HasPoint(s) => lit.int1 <= lit.frac0
        /\ ~HasPoint(s) => lit.frac0 = 0 /\ lit.frac1 = 0
        /\ SpansRebuild

\* a text with a sign, integer digits, a point and no fraction digit
C10_Witness ==
    /\ Tokenized /\ lit.tag = "Ok" /\ HasPoint(s)
    /\ lit.neg /\ lit.int # <<>> /\ lit.frac = <<>>

---------------------------------------------------------------------------
(* The value of a literal, stated on the text alone *)

\* the value of a digit character
DigitOf(c) == IF c \in 48..57 THEN c - 48 ELSE IF c \in 65..70 THEN c - 55 ELSE c - 87

RECURSIVE NumFrom(_, _, _, _)
\* the number the digits of t from the i-th on continue, v being that of the digits before
NumFrom(t, i, v, base) == IF i > Len(t) THEN v ELSE NumFrom(t, i + 1, v * base + DigitOf(t[i]), base)

\* the number a run of digits writes in a base
NumOf(t, base) == NumFrom(t, 1, 0, base)

\* floor(num / den * 2^f + 1/2)
RoundToBits(num, den, f) == (num * (2^(f + 1)) + den) \div (2 * den)

TheShape(t, can_be_neg, rdx) == CHOOSE d \in Shapes(t, can_be_neg, rdx) : TRUE

\* C1: for FixedU8 with 8 fraction bits and radix 10, an accepted literal with at
\* most 3 fraction digits and value v gives Ok(r), r = floor(v * 256 + 1/2), when
\* r <= 255 and Overflow when r >= 256; a literal with '-' gives InvalidDigit.
C1_U0F8Decimal ==
    (pc = "done" /\ NBITS = 8 /\ ~is_signed /\ frac_nbits = 8 /\ radix = 10) =>
        /\ (Shapes(s, FALSE, 10) # {} /\ Len(ShapeFrac(s, TheShape(s, FALSE, 10))) <= 3) =>
            LET d == TheShape(s, FALSE, 10)
                den == 10^Len(ShapeFrac(s, d))
                num == NumOf(ShapeInt(s, d), 10) * den + NumOf(ShapeFrac(s, d), 10)
                r == RoundToBits(num, den, 8)
            IN  result = IF r <= 255 THEN Ok(r) ELSE Err("Overflow")
        /\ (Shapes(s, TRUE, 10) # {} /\ \E i \in 1..Len(s) : s[i] = MINUS) =>
            result = Err("InvalidDigit")

\* "0.998" gives 0xFF
C1_Witness ==
    /\ pc = "done" /\ NBITS = 8 /\ ~is_signed /\ frac_nbits = 8 /\ radix = 10
    /\ lit.frac = <<B9, B9, B0 + 8>> /\ result = Ok(255)

\* C4: on the 8-bit types the decimal fraction converter gives round-to-nearest,
\* ties up, of the whole fraction span, f being its value: floor(f * 2^F + 1/2),
\* or None when that is 2^F; also for spans of 4 or more digits.
C4_RoundsWholeSpan ==
    (pc = "int" /\ NBITS = 8 /\ radix = 10) =>
        LET r == RoundToBits(NumOf(lit.frac, 10), 10^Len(lit.frac), frac_nbits)
        IN  frac_out = IF r = 2^frac_nbits THEN None ELSE Some(r)

\* the same for spans of at most 3 digits
C4_UpToThreeDigits == Len(lit.frac) <= 3 => C4_RoundsWholeSpan

---------------------------------------------------------------------------
(* The whole call: sign, integer part, totality, bases, appended zeros (Spec) *)

\* the text without its sign character
Unsigned(t) == IF t # <<>> /\ t[1] \in {PLUS, MINUS} THEN Tail(t) ELSE t

\* C2: a signed parse is decided by the sign and the magnitude m the unsigned
\* converters of the same width and fraction bits give: with '-', Ok((2^N - m) mod
\* 2^N) when m <= 2^(N-1) and Overflow above; without, Ok(m) when m <= 2^(N-1) - 1
\* and Overflow above; the unsigned converters' own error is returned as it is.
C2_SignedFromMagnitude ==
    (pc = "done" /\ is_signed /\ lit.tag = "Ok") =>
        LET u == from_str(Unsigned(s), radix, NBITS, frac_nbits, FALSE)
            m == u.bits
            half == 2^(NBITS - 1)
        IN  IF u.tag # "Ok" THEN result = u
            ELSE IF lit.neg
            THEN result = IF m <= half THEN Ok((2 * half - m) % (2 * half)) ELSE Err("Overflow")
            ELSE result = IF m <= half - 1 THEN Ok(m) ELSE Err("Overflow")

\* "-80" in radix 16 is the most negative FixedI8 with no fraction bits
C2_Witness ==
    /\ pc = "done" /\ is_signed /\ lit.tag = "Ok" /\ lit.neg
    /\ NBITS = 8 /\ result = Ok(128)

AllZeros(t) == \A i \in 1..Len(t) : t[i] = B0

\* C3: with int_bits >= 1, an integer span that is empty or all '0' gives the
\* integer field 0 without carry and 1 << (W - int_bits) with the carry pending,
\* never Overflow.
C3_ZeroIntegerPart ==
    (int_out # Pending /\ int_bits(NBITS, frac_nbits) >= 1 /\ AllZeros(lit.int)) =>
        int_out = Ok(IF whole_frac_of(frac_out) THEN shl(1, frac_nbits, NBITS) ELSE 0)

Kinds == {"InvalidDigit", "NoDigits", "TooManyPoints", "Overflow"}

\* C5: every call returns Ok(bits) or one of the four error kinds; no
\* unreachable!() arm is reached.
C5_Total ==
    pc = "done" => (result.tag = "Ok" \/ (result.tag = "Err" /\ result.kind \in Kinds))

\* C5 for the widths of 8 and 16 bits
C5_TotalUpTo16 == NBITS <= 16 => C5_Total

Zeros(k) == [i \in 1..k |-> B0]

\* the digit character of a value below 16
DigitChar(v) == IF v < 10 THEN B0 + v ELSE UA + (v - 10)

\* the binary digits t, a multiple of g long, as digits of base 2^g
Group(t, g) == [j \in 1..(Len(t) \div g) |-> DigitChar(NumOf(SubSeq(t, g * (j - 1) + 1, g * j), 2))]

\* the binary literal t with shape d in base 2^g: same sign, the integer digits
\* padded on the left and the fraction digits on the right to groups of g
InBase(t, d, g) ==
    LET i == ShapeInt(t, d)
        f == ShapeFrac(t, d)
    IN  SubSeq(t, 1, d[1])
            \o Group(Zeros((g - (Len(i) % g)) % g) \o i, g)
            \o (IF d[2] = Len(t) THEN <<>> ELSE <<DOT>>)
            \o Group(f \o Zeros((g - (Len(f) % g)) % g), g)

\* C8: a binary literal whose fraction fits the layout's fraction bits and its
\* octal and hexadecimal writings give identical results.
C8_BaseEquivalence ==
    (pc = "done" /\ radix = 2 /\ lit.tag = "Ok" /\ Len(lit.frac) <= frac_nbits) =>
        LET d == TheShape(s, is_signed, 2)
        IN  /\ from_str(InBase(s, d, 3), 8, NBITS, frac_nbits, is_signed) = result
            /\ from_str(InBase(s, d, 4), 16, NBITS, frac_nbits, is_signed) = result

\* C8 for the widths of 8 and 16 bits
C8_UpTo16 == NBITS <= 16 => C8_BaseEquivalence

\* C9: appending '0' digits to the fraction of an accepted literal with a point
\* does not change the result.
C9_AppendedZeros ==
    (pc = "done" /\ lit.tag = "Ok" /\ HasPoint(s)) =>
        \A k \in 1..MaxZeros :
            from_str(s \o Zeros(k), radix, NBITS, frac_nbits, is_signed) = result

\* C9 for the widths of 8 and 16 bits
C9_UpTo16 == NBITS <= 16 => C9_AppendedZeros

---------------------------------------------------------------------------
(* The order of the stages *)

TokenizerKinds == {"InvalidDigit", "NoDigits", "TooManyPoints"}

\* C11: the stages run in order and an error ends the call: a rejected text
\* returns the tokenizer's kind with no converter having run; the fraction
\* converter gives only a value or the carry flag; Overflow is returned only for
\* an accepted text; an Ok result is formed only by the assembler, last.
C11_Sequential ==
    /\ lit.tag = "Err" =>
        /\ pc = "done" /\ result = Err(lit.kind) /\ lit.kind \in TokenizerKinds
        /\ frac_out = None /\ int_out = Pending
    /\ frac_out.tag \in {"Some", "None"}
    /\ result = Err("Overflow") => (lit.tag = "Ok" /\ pc = "done")
    /\ result.tag = "Ok" => (pc = "done" /\ lit.tag = "Ok" /\ int_out.tag = "Ok")
    /\ pc \in {"parse", "frac", "int"} => (int_out = Pending /\ result = Pending)
    /\ pc = "all" => (int_out.tag = "Ok" /\ result = Pending)

\* C11 for the widths of 8 and 16 bits
C11_UpTo16 == NBITS <= 16 => C11_Sequential

---------------------------------------------------------------------------
(* The power-of-two fraction converters *)

\* the bits one digit of a radix 2, 8 or 16 writes
DigitBits(rdx) == CASE rdx = 2 -> 1 [] rdx = 8 -> 3 [] rdx = 16 -> 4

\* C12: in radix 2, 8 and 16 with F fraction bits (widths of 8 and 16 bits) the
\* fraction converter gives the span's value f as floor(f * 2^F + 1/2), which is
\* f * 2^F when the digits write at most F bits, and the carry flag when that is
\* 2^F.
C12_FractionOfFBits ==
    (pc = "int" /\ radix \in {2, 8, 16} /\ NBITS <= 16) =>
        LET r == RoundToBits(NumOf(lit.frac, radix),
                             2^(DigitBits(radix) * Len(lit.frac)), frac_nbits)
        IN  frac_out = IF r = 2^frac_nbits THEN None ELSE Some(r)

---------------------------------------------------------------------------
(* Direct calls of bin_str_to_bin, oct_str_to_bin and hex_str_to_bin *)

\* the variables of from_str_radix while a converter is called directly
Idle ==
    /\ s = <<>> /\ radix = 10 /\ NBITS = 8 /\ is_signed = FALSE /\ frac_nbits = 0
    /\ pc = "direct" /\ lit = NoParse
    /\ frac_out = None /\ int_out = Pending /\ result = Pending

\* bin_str_to_bin::<I>(a, dump_bits), I of args.n bits
CallBinStrToBin ==
    /\ fn = "bin_str_to_bin" /\ ret = NotCalled
    /\ ret' = bin_str_to_bin(args.a, args.dump_bits, args.n)
    /\ UNCHANGED <<s, radix, NBITS, is_signed, frac_nbits, pc, lit, frac_out, int_out, result, fn, args>>

\* oct_str_to_bin::<I>(a, dump_bits)
CallOctStrToBin ==
    /\ fn = "oct_str_to_bin" /\ ret = NotCalled
    /\ ret' = oct_str_to_bin(args.a, args.dump_bits, args.n)
    /\ UNCHANGED <<s, radix, NBITS, is_signed, frac_nbits, pc, lit, frac_out, int_out, result, fn, args>>

\* hex_str_to_bin::<I>(a, dump_bits)
CallHexStrToBin ==
    /\ fn = "hex_str_to_bin" /\ ret = NotCalled
    /\ ret' = hex_str_to_bin(args.a, args.dump_bits, args.n)
    /\ UNCHANGED <<s, radix, NBITS, is_signed, frac_nbits, pc, lit, frac_out, int_out, result, fn, args>>

NextStrToBin == CallBinStrToBin \/ CallOctStrToBin \/ CallHexStrToBin

\* longest binary and longest octal or hexadecimal digit string of a direct call
MaxBinLen == 9
MaxOctHexLen == 3

\* the digit strings (not empty: debug_assert!(!a.is_empty())) each function is called on
StrToBinDigits(f) ==
    CASE f = "bin_str_to_bin" -> Seqs({B0, B0 + 1}, MaxBinLen) \ {<<>>}
      [] f = "oct_str_to_bin" -> Seqs({B0, B0 + 3, B0 + 4, B0 + 7}, MaxOctHexLen) \ {<<>>}
      [] f = "hex_str_to_bin" -> Seqs({B0, B0 + 7, B0 + 8, UF}, MaxOctHexLen) \ {<<>>}

InitStrToBin ==
    /\ Idle
    /\ fn \in {"bin_str_to_bin", "oct_str_to_bin", "hex_str_to_bin"}
    /\ \E a \in StrToBinDigits(fn), n \in (IF fn = "bin_str_to_bin" THEN {8} ELSE {8, 16}) :
        \E d \in 0..n : args = [a |-> a, dump_bits |-> d, n |-> n]
    /\ ret = NotCalled

SpecStrToBin == InitStrToBin /\ [][NextStrToBin]_vars

\* the radix of the digits of a direct call
RadixOf(f) ==
    CASE f = "bin_str_to_bin" -> 2 [] f = "oct_str_to_bin" -> 8 [] f = "hex_str_to_bin" -> 16

\* C13: with B = NBITS - dump_bits, when the first B bits of the digits are all
\* ones and the bit after them is 1, the function returns None; and every value
\* it returns is below 2^B.
C13_CarryOutOfField ==
    ret # NotCalled =>
        LET B == args.n - args.dump_bits
            nb == DigitBits(RadixOf(fn)) * Len(args.a)
            num == NumOf(args.a, RadixOf(fn))
        IN  /\ (nb > B /\ num \div (2^(nb - B - 1)) = 2^(B + 1) - 1) => ret = None
            /\ ret.tag = "Some" => ret.val < 2^B

\* C13 when the field is the whole native width
C13_FullWidth == args.dump_bits = 0 => C13_CarryOutOfField

---------------------------------------------------------------------------
(* Direct calls of the integer converters get_int8 .. get_int128 *)

\* the width of the type an integer converter returns
WidthOf(f) ==
    CASE f = "get_int8" -> 8 [] f = "get_int16" -> 16 [] f = "get_int32" -> 32
      [] f = "get_int64" -> 64 [] f = "get_int128" -> 128

CallGetInt8 ==
    /\ fn = "get_int8" /\ ret = NotCalled
    /\ ret' = get_int8(args.int, args.radix, args.nbits, args.whole_frac)
    /\ UNCHANGED <<s, radix, NBITS, is_signed, frac_nbits, pc, lit, frac_out, int_out, result, fn, args>>

CallGetInt16 ==
    /\ fn = "get_int16" /\ ret = NotCalled
    /\ ret' = get_int16(args.int, args.radix, args.nbits, args.whole_frac)
    /\ UNCHANGED <<s, radix, NBITS, is_signed, frac_nbits, pc, lit, frac_out, int_out, result, fn, args>>

CallGetInt32 ==
    /\ fn = "get_int32" /\ ret = NotCalled
    /\ ret' = get_int32(args.int, args.radix, args.nbits, args.whole_frac)
    /\ UNCHANGED <<s, radix, NBITS, is_signed, frac_nbits, pc, lit, frac_out, int_out, result, fn, args>>

CallGetInt64 ==
    /\ fn = "get_int64" /\ ret = NotCalled
    /\ ret' = get_int64(args.int, args.radix, args.nbits, args.whole_frac)
    /\ UNCHANGED <<s, radix, NBITS, is_signed, frac_nbits, pc, lit, frac_out, int_out, result, fn, args>>

CallGetInt128 ==
    /\ fn = "get_int128" /\ ret = NotCalled
    /\ ret' = get_int128(args.int, args.radix, args.nbits, args.whole_frac)
    /\ UNCHANGED <<s, radix, NBITS, is_signed, frac_nbits, pc, lit, frac_out, int_out, result, fn, args>>

NextInt == CallGetInt8 \/ CallGetInt16 \/ CallGetInt32 \/ CallGetInt64 \/ CallGetInt128

\* most digits of an integer span of a direct call
MaxSpanLen == 4

\* 255, 256, 65535 and 65536 in each radix
BoundarySpans(rdx) ==
    CASE rdx = 2 -> {[i \in 1..8 |-> B0 + 1], <<B0 + 1>> \o Zeros(8),
                     [i \in 1..16 |-> B0 + 1], <<B0 + 1>> \o Zeros(16)}
      [] rdx = 8 -> {<<51, 55, 55>>, <<52, 48, 48>>,
                     <<49, 55, 55, 55, 55, 55>>, <<50, 48, 48, 48, 48, 48>>}
      [] rdx = 10 -> {<<50, 53, 53>>, <<50, 53, 54>>,
                      <<54, 53, 53, 51, 53>>, <<54, 53, 53, 51, 54>>}
      [] rdx = 16 -> {<<UF, UF>>, <<49, 48, 48>>, <<UF, UF, UF, UF>>, <<49, 48, 48, 48, 48>>}

IntSpans(rdx) == Seqs(SomeDigits(rdx), MaxSpanLen) \cup BoundarySpans(rdx)

\* the integer-bit counts of the calls: all of them for the types of 8 and 16
\* bits, those around the halves and the ends for the wider types
IntBitsOf(w) == IF w <= 16 THEN 0..w ELSE {0, 1, 8, 9, 16, 17, w \div 2, (w \div 2) + 1, w - 4, w}

\* the calls whose field, when there is one, is below 2^30
SmallField(int, rdx, nbits, whole_frac, w) ==
    LET v == NumOf(int, rdx) + (IF whole_frac THEN 1 ELSE 0)
    IN  nbits = 0 \/ v = 0 \/ ~Fits(v, nbits) \/ BitLen(v) + (w - nbits) <= 30

InitInt ==
    /\ Idle
    /\ fn \in {"get_int8", "get_int16", "get_int32", "get_int64", "get_int128"}
    /\ \E rdx \in Radixes :
        \E int \in IntSpans(rdx), nbits \in IntBitsOf(WidthOf(fn)), c \in BOOLEAN :
            /\ SmallField(int, rdx, nbits, c, WidthOf(fn))
            /\ args = [int |-> int, radix |-> rdx, nbits |-> nbits, whole_frac |-> c]
    /\ ret = NotCalled

SpecInt == InitInt /\ [][NextInt]_vars

RECURSIVE TimesPow2(_, _)
\* v * 2^k
TimesPow2(v, k) == IF k = 0 \/ v = 0 THEN v ELSE TimesPow2(2 * v, k - 1)

\* the integer value of the call's span plus its carry
IntPlusCarry == NumOf(args.int, args.radix) + (IF args.whole_frac THEN 1 ELSE 0)

\* C14: with int_bits >= 1 and a span of value n with a nonzero digit, the
\* integer converter returns the field (n + c) * 2^(W - int_bits) when
\* n + c < 2^int_bits, and Overflow otherwise.
C14_IntegerField ==
    (ret # NotCalled /\ args.nbits >= 1 /\ ~AllZeros(args.int)) =>
        ret = IF Fits(IntPlusCarry, args.nbits)
              THEN Ok(TimesPow2(IntPlusCarry, WidthOf(fn) - args.nbits))
              ELSE Err("Overflow")

\* 65535 with the carry pending overflows 16 integer bits
C14_Witness ==
    /\ fn = "get_int16" /\ args.nbits = 16 /\ args.whole_frac
    /\ args.int = <<54, 53, 53, 51, 53>> /\ args.radix = 10
    /\ ret = Err("Overflow")

\* C15: with int_bits = 0, at every width, the integer converter returns Ok(0)
\* exactly when the span is empty or all '0' and no carry is pending, and
\* Overflow otherwise.
C15_NoIntegerBits ==
    (ret # NotCalled /\ args.nbits = 0) =>
        ret = IF AllZeros(args.int) /\ ~args.whole_frac THEN Ok(0) ELSE Err("Overflow")

\* a pending carry with no integer bits, at 128 bits
C15_Witness ==
    /\ fn = "get_int128" /\ args.nbits = 0 /\ args.whole_frac /\ AllZeros(args.int)
    /\ ret = Err("Overflow")

\* C18: for W in {16, 32, 64, 128} and int_bits <= W/2 the converter returns
\* what the algorithm without delegation returns at width W; and for
\* int_bits <= 8 that is the result of the 8-bit converter moved up by W - 8 bits.
C18_DelegationSame ==
    (ret # NotCalled /\ WidthOf(fn) >= 16 /\ args.nbits <= WidthOf(fn) \div 2) =>
        /\ ret = int_body(args.int, args.radix, args.nbits, args.whole_frac, WidthOf(fn))
        /\ args.nbits <= 8 =>
            LET r8 == int_body(args.int, args.radix, args.nbits, args.whole_frac, 8)
            IN  ret = IF r8.tag = "Ok" THEN Ok(TimesPow2(r8.bits, WidthOf(fn) - 8)) ELSE r8

\* a field that went through two delegations
C18_Witness ==
    /\ fn = "get_int32" /\ args.nbits = 8 /\ ret.tag = "Ok" /\ ret.bits > 0

---------------------------------------------------------------------------
(* The two fields of the assembly *)

\* C17: when the integer converter has succeeded, the fraction field is below
\* 2^F and the integer field is a multiple of 2^F, so that the two share no bit
\* and their OR is their sum.
C17_FieldsDisjoint ==
    (pc \in {"all", "done"} /\ int_out.tag = "Ok") =>
        LET int == int_out.bits
            frac == frac_of(frac_out)
        IN  /\ Fits(frac, frac_nbits)
            /\ TimesPow2(shr(int, frac_nbits), frac_nbits) = int
            /\ BitOr(int, frac) = int + frac

\* C17 in radix 10
C17_Decimal == radix = 10 => C17_FieldsDisjoint

---------------------------------------------------------------------------
(* Direct calls of get_frac16 on decimal fractions *)

CallGetFrac16 ==
    /\ fn = "get_frac16" /\ ret = NotCalled
    /\ ret' = get_frac16(args.frac, args.radix, args.nbits)
    /\ UNCHANGED <<s, radix, NBITS, is_signed, frac_nbits, pc, lit, frac_out, int_out, result, fn, args>>

NextFrac16 == CallGetFrac16

InitFrac16 ==
    /\ Idle
    /\ fn = "get_frac16"
    /\ \E frac \in DecFracs, nbits \in 0..16 :
        args = [frac |-> frac, radix |-> 10, nbits |-> nbits]
    /\ ret = NotCalled

SpecFrac16 == InitFrac16 /\ [][NextFrac16]_vars

\* C19: for a 16-bit layout with F <= 8 the decimal fraction converter returns
\* what $frac run at 16 bits without delegation returns: the first min(len, 6)
\* digits through dec6_to_bin16 with dump_bits = 16 - F.
C19_FracDelegationSame ==
    (ret # NotCalled /\ args.nbits <= 8) =>
        ret = frac_body(args.frac, args.radix, args.nbits, 16, 6)

\* C19 for spans of at most 3 digits
C19_UpToThreeDigits == Len(args.frac) <= 3 => C19_FracDelegationSame

---------------------------------------------------------------------------
(* Direct calls of the decimal converters *)

CallDec3ToBin8 ==
    /\ fn = "dec3_to_bin8" /\ ret = NotCalled
    /\ ret' = dec3_to_bin8(args.a, args.dump_bits)
    /\ UNCHANGED <<s, radix, NBITS, is_signed, frac_nbits, pc, lit, frac_out, int_out, result, fn, args>>

CallDec6ToBin16 ==
    /\ fn = "dec6_to_bin16" /\ ret = NotCalled
    /\ ret' = dec6_to_bin16(args.a, args.dump_bits)
    /\ UNCHANGED <<s, radix, NBITS, is_signed, frac_nbits, pc, lit, frac_out, int_out, result, fn, args>>

\* args.a is a wide integer
CallDec13ToBin32 ==
    /\ fn = "dec13_to_bin32" /\ ret = NotCalled
    /\ ret' = dec13_to_bin32(args.a, args.dump_bits)
    /\ UNCHANGED <<s, radix, NBITS, is_signed, frac_nbits, pc, lit, frac_out, int_out, result, fn, args>>

\* args.a is a wide integer
CallDec27ToBin64 ==
    /\ fn = "dec27_to_bin64" /\ ret = NotCalled
    /\ ret' = dec27_to_bin64(args.a, args.dump_bits)
    /\ UNCHANGED <<s, radix, NBITS, is_signed, frac_nbits, pc, lit, frac_out, int_out, result, fn, args>>

\* args.hi and args.lo are wide integers
CallDec27_27ToBin128 ==
    /\ fn = "dec27_27_to_bin128" /\ ret = NotCalled
    /\ ret' = dec27_27_to_bin128(args.hi, args.lo, args.dump_bits)
    /\ UNCHANGED <<s, radix, NBITS, is_signed, frac_nbits, pc, lit, frac_out, int_out, result, fn, args>>

NextDec == CallDec3ToBin8 \/ CallDec6ToBin16 \/ CallDec13ToBin32 \/ CallDec27ToBin64

NextDec128 == CallDec27_27ToBin128

\* most leading digits chosen freely in a number of 6, 13 or 27 decimal digits
MaxLead == 2

\* the texts of k decimal digits that start with at most MaxLead of the digits
\* 4, 9 and go on with '0' only or with '9' only
DecTexts(k) ==
    {t \o [i \in 1..(k - Len(t)) |-> d] : t \in Seqs({B0 + 4, B9}, MaxLead), d \in {B0, B9}}

\* the two numbers of check_dec27_27
TestHi == <<49, 50, 51, 52, 53, 54, 55, 56, 57, 48, 49, 50, 51, 52, 53, 54, 55, 56, 57, 48, 49, 50, 51, 52, 53, 54, 55>>
TestLo == <<57, 56, 55, 54, 53, 52, 51, 50, 49, 48, 57, 56, 55, 54, 53, 52, 51, 50, 49, 48, 57, 56, 55, 54, 53, 52, 51>>

\* the dump_bits of the calls on a type of n >= 32 bits
DumpBitsOf(n) == {0, 1, n \div 2, n - 1, n} \cup (IF n = 128 THEN {74, 75, 76, 77, 100, 120} ELSE {})

\* the low halves of the calls of dec27_27_to_bin128: 0, 10^27 - 1, 1 and the
\* one of check_dec27_27
LoTexts ==
    {Zeros(27), [i \in 1..27 |-> B9], Zeros(26) \o <<B0 + 1>>, TestLo}

InitDec128 ==
    /\ Idle
    /\ fn = "dec27_27_to_bin128"
    /\ \E h \in DecTexts(27) \cup {TestHi}, l \in LoTexts, d \in DumpBitsOf(128) :
        args = [hi |-> wparse_dec(h), lo |-> wparse_dec(l), dump_bits |-> d]
    /\ ret = NotCalled

SpecDec128 == InitDec128 /\ [][NextDec128]_vars

InitDec ==
    /\ Idle
    /\ fn \in {"dec3_to_bin8", "dec6_to_bin16", "dec13_to_bin32", "dec27_to_bin64"}
    /\ \/ fn = "dec3_to_bin8" /\ \E a \in 0..999, d \in 0..8 : args = [a |-> a, dump_bits |-> d]
       \/ fn = "dec6_to_bin16" /\ \E a \in DecTexts(6), d \in 0..16 :
            args = [a |-> parse_dec(a), dump_bits |-> d]
       \/ fn = "dec13_to_bin32" /\ \E a \in DecTexts(13), d \in DumpBitsOf(32) :
            args = [a |-> wparse_dec(a), dump_bits |-> d]
       \/ fn = "dec27_to_bin64" /\ \E a \in DecTexts(27), d \in DumpBitsOf(64) :
            args = [a |-> wparse_dec(a), dump_bits |-> d]
    /\ ret = NotCalled

SpecDec == InitDec /\ [][NextDec]_vars

\* the digit limit and the width of each decimal converter
DigitsOfDec(f) ==
    CASE f = "dec3_to_bin8" -> 3 [] f = "dec6_to_bin16" -> 6
      [] f = "dec13_to_bin32" -> 13 [] f = "dec27_to_bin64" -> 27
WidthOfDec(f) ==
    CASE f = "dec3_to_bin8" -> 8 [] f = "dec6_to_bin16" -> 16
      [] f = "dec13_to_bin32" -> 32 [] f = "dec27_to_bin64" -> 64

\* floor(a * 2^f / 10^k + 1/2), with the common powers of two cancelled
RoundDec(a, k, f) ==
    IF f + 1 >= k THEN (a * (2^(f + 1 - k)) + 5^k) \div (2 * (5^k))
    ELSE (a + (2^(k - f - 1)) * (5^k)) \div ((2^(k - f)) * (5^k))

\* floor(a * 2^f / 10^k + 1/2) on wide integers
WideRoundDec(a, k, f) == wdiv(wadd(wshl(a, f + 1), wpow(10, k)), wmul_small(wpow(10, k), 2))

\* C16: dec3_to_bin8(a, dump_bits), with F = 8 - dump_bits, returns None when
\* r = floor(a * 2^F / 1000 + 1/2) >= 2^F and Some(r) otherwise, and neither
\* a << 6 nor shift + 125 leaves u16; dec6_to_bin16, dec13_to_bin32 and
\* dec27_to_bin64 do the same with (k, W) = (6, 16), (13, 32), (27, 64).
C16_DecRounds ==
    ret # NotCalled =>
        LET k == DigitsOfDec(fn)
            w == WidthOfDec(fn)
            f == w - args.dump_bits
        IN  IF w <= 16
            THEN LET r == RoundDec(args.a, k, f)
                 IN  /\ ret = IF r >= 2^f THEN None ELSE Some(r)
                     /\ Fits(args.a * (2^(w - k + 1)), 2 * w)
                     /\ Fits(shr(args.a * (2^(w - k + 1)), args.dump_bits) + 5^k, 2 * w)
            ELSE LET r == WideRoundDec(args.a, k, f)
                 IN  /\ ret = IF wcmp(r, wshl(<<1>>, f)) >= 0 THEN None ELSE Some(r)
                     /\ wfits(wshl(args.a, w - k + 1), 2 * w)
                     /\ wfits(wadd(wshr(wshl(args.a, w - k + 1), args.dump_bits), wpow(5, k)), 2 * w)

\* 0.999 rounds up to 1.0 at 8 bits, and 10^27 - 1 does at 64
C16_Witness ==
    \/ fn = "dec3_to_bin8" /\ args = [a |-> 999, dump_bits |-> 0] /\ ret = None
    \/ /\ fn = "dec27_to_bin64" /\ args.dump_bits = 0 /\ ret = None
       /\ args.a = wparse_dec([i \in 1..27 |-> B9])

\* C20: dec27_27_to_bin128(hi, lo, dump_bits), with F = 128 - dump_bits and
\* n = hi * 10^27 + lo, returns None when r = floor(n * 2^F / 10^54 + 1/2) >= 2^F
\* and Some(r) otherwise.
C20_Dec128Rounds ==
    ret # NotCalled =>
        LET f == 128 - args.dump_bits
            n == wadd(wmul(args.hi, wpow(10, 27)), args.lo)
            r == WideRoundDec(n, 54, f)
        IN  ret = IF wcmp(r, wshl(<<1>>, f)) >= 0 THEN None ELSE Some(r)

\* the last case of check_dec27_27: Some(42_010_168_377_579_896_403_540_037_811_203_677_112)
C20_Witness ==
    /\ args = [hi |-> wparse_dec(TestHi), lo |-> wparse_dec(TestLo), dump_bits |-> 0]
    /\ ret = Some(wparse_dec(<<52, 50, 48, 49, 48, 49, 54, 56, 51, 55, 55, 53, 55, 57, 56, 57, 54, 52, 48,
                               51, 53, 52, 48, 48, 51, 55, 56, 49, 49, 50, 48, 51, 54, 55, 55, 49, 49, 50>>))

---------------------------------------------------------------------------
(* Direct calls of mul_hi_lo, src/src/from_str.rs 193-210 *)

\* args.lhs and args.rhs are wide integers; the pair returned is <<hi, lo>>
CallMulHiLo ==
    /\ fn = "mul_hi_lo" /\ ret = NotCalled
    /\ ret' = [tag |-> "Pair", val |-> mul_hi_lo(args.lhs, args.rhs)]
    /\ UNCHANGED <<s, radix, NBITS, is_signed, frac_nbits, pc, lit, frac_out, int_out, result, fn, args>>

NextMul == CallMulHiLo

\* the 64-bit words 0, 1, 2^32 - 1, 2^63, 2^64 - 2, 2^64 - 1 and 0xDEADBEEF0BADF00D,
\* low byte first
MulWords ==
    {<<>>, <<1>>, [i \in 1..4 |-> 255], [i \in 1..8 |-> IF i = 8 THEN 128 ELSE 0],
     [i \in 1..8 |-> IF i = 1 THEN 254 ELSE 255], [i \in 1..8 |-> 255],
     <<13, 240, 173, 11, 239, 190, 173, 222>>}

\* the u128 of high word h and low word l
U128Of(h, l) == norm(l \o [i \in 1..(8 - Len(l)) |-> 0] \o h)

\* the operands of the calls: every pair of words, and 10^27, the factor of
\* dec27_27_to_bin128
MulOperands == {U128Of(h, l) : h \in MulWords, l \in MulWords} \cup {wpow(10, 27)}

InitMul ==
    /\ Idle
    /\ fn = "mul_hi_lo"
    /\ \E l \in MulOperands, r \in MulOperands : args = [lhs |-> l, rhs |-> r]
    /\ ret = NotCalled

SpecMul == InitMul /\ [][NextMul]_vars

\* lhs_hi_rhs_lo + col01_hi of mul_hi_lo, not cut to 128 bits
SumPartialCol12(lhs, rhs) ==
    wadd(wrapping_mul128(wshr(lhs, 64), wtrunc(rhs, 64)),
         wshr(wrapping_mul128(wtrunc(lhs, 64), wtrunc(rhs, 64)), 64))

\* col12 and carry_col3 of mul_hi_lo
Col12(lhs, rhs) ==
    overflowing_add(wtrunc(SumPartialCol12(lhs, rhs), 128),
                    wrapping_mul128(wtrunc(lhs, 64), wshr(rhs, 64)), 128)

\* (col12_lo << 64) + col01_lo, not cut to 128 bits
SumAns01(col12, lhs, rhs) ==
    wadd(wshl(wtrunc(col12, 64), 64),
         wtrunc(wrapping_mul128(wtrunc(lhs, 64), wtrunc(rhs, 64)), 64))

\* lhs_hi_rhs_hi + col12_hi + (1 << 64 if carry_col3), not cut to 128 bits
SumAns23(col12, carry_col3, lhs, rhs) ==
    wadd(wadd(wrapping_mul128(wshr(lhs, 64), wshr(rhs, 64)), wshr(col12, 64)),
         IF carry_col3 THEN wshl(<<1>>, 64) ELSE <<>>)

\* the sums of a call stay within u128
SumsFit(c, lhs, rhs) ==
    /\ wfits(SumPartialCol12(lhs, rhs), 128)
    /\ wfits(SumAns01(c[1], lhs, rhs), 128)
    /\ wfits(SumAns23(c[1], c[2], lhs, rhs), 128)

\* C21: mul_hi_lo(lhs, rhs) returns <<hi, lo>> with hi * 2^128 + lo = lhs * rhs
\* and lo < 2^128, and the sums partial_col12, ans01 and ans23, which are made
\* with the non-wrapping +, stay below 2^128.
C21_ExactProduct ==
    ret # NotCalled =>
        /\ wadd(wshl(ret.val[1], 128), ret.val[2]) = wmul(args.lhs, args.rhs)
        /\ wfits(ret.val[1], 128) /\ wfits(ret.val[2], 128)
        /\ SumsFit(Col12(args.lhs, args.rhs), args.lhs, args.rhs)

\* (2^128 - 1)^2 = (2^128 - 2) * 2^128 + 1, a product with carry_col3 set
C21_Witness ==
    /\ args.lhs = [i \in 1..16 |-> 255] /\ args.rhs = [i \in 1..16 |-> 255]
    /\ ret = [tag |-> "Pair", val |-> <<[i \in 1..16 |-> IF i = 1 THEN 254 ELSE 255], <<1>>>>]
    /\ Col12(args.lhs, args.rhs)[2]

====
